---- MODULE Spec2Model ----
(***************************************************************************)
(* Reservation lifecycle of reservas-main (api/views.py, api/utils.py):    *)
(* creation with the resource stock check, the staff decision with the     *)
(* space conflict check, and the owner's cancellation.                     *)
(*                                                                         *)
(* Time is counted in whole units of the cancellation window granularity.  *)
(* Notification rows are only ever inserted by the handlers; the model     *)
(* keeps in `emitted` the rows inserted by the latest request.             *)
(***************************************************************************)
EXTENDS Integers, Sequences, FiniteSets

VARIABLES
    reservations,   \* Reservation table: sequence of rows, pk = index
    usages,         \* ReservationResource table: set of rows
    approvals,      \* Approval table: set of rows, one-to-one on reservation
    groups,         \* auth Group table: group name -> set of member users
    catalog,        \* Space and Resource tables
    cache,          \* django.core.cache: login attempts and blocks per client IP
    now,            \* the clock (timezone.now())
    emitted,        \* Notification rows inserted by the latest request
    outcome,        \* the latest request, the row it named and how it ended
    inflight        \* per worker: the request it is in the middle of

vars == <<reservations, usages, approvals, groups, catalog, cache, now, emitted, outcome, inflight>>

----------------------------------------------------------------------------
(* Bounds of the model *)

MaxRes == 2         \* number of Reservation rows ever created
MaxNow == 1         \* the clock runs from 0 to MaxNow
MaxQty == 2         \* largest quantity a request asks of one resource

(* Catalog data, read-only for the lifecycle operations *)

Users == {"ana", "beto"}
Owners == {"ana"}
StaffUsers == {"sofia"}
StaffProfiles == {"sofia", "tomas"}
Spaces == {"LabA", "LabB"}
Resources == {"proyector", "sillas"}
Notes == {"ok"}
Reasons == {<<" ", "x", " ">>}
Workers == {"w1", "w2"}

\* Resource.quantity of each catalog resource
ResourceQuantity == [r \in Resources |-> IF r = "proyector" THEN 2 ELSE 1]

\* The Space and Resource rows as catalog management left them
Catalog ==
    [spaces |-> [x \in Spaces |-> [name |-> x, is_active |-> TRUE]],
     resources |-> [r \in Resources |->
                      [name |-> r, quantity |-> ResourceQuantity[r], is_active |-> TRUE]]]

\* settings.CLEANING_GROUP_NAME, default 'aseo'
CLEANING_GROUP_NAME == "aseo"

\* settings.MIN_CANCEL_WINDOW_HOURS, in clock units
MinCancelWindow == 1

\* the slice [:255] applied to the cancellation reason
CancelReasonMax == 255

\* Reservation.status values
PENDING == "PEND"
APPROVED == "APPR"
REJECTED == "REJ"
CANCELLED == "CANC"

NoReason == <<"-null-">>
Idle == [op |-> "idle", pc |-> "done"]

\* The slot boundaries a reservation form offers
Times == {1, 2, 3}
Ids == DOMAIN reservations

----------------------------------------------------------------------------
(* Pure helpers *)

\* The test with both comparisons taken as "or equal"
OverlapsClosed(sA, eA, sB, eB) == sA <= eB /\ eA >= sB

\* start__lt=end, end__gt=start
Overlaps(sA, eA, sB, eB) == sA < eB /\ eA > sB

RECURSIVE SumQty(_)
SumQty(rows) ==
    IF rows = {} THEN 0
    ELSE LET u == CHOOSE x \in rows : TRUE
         IN  u.quantity + SumQty(rows \ {u})

\* The larger of two numbers as the second of them
MaxSecond(a, b) == b

Max(a, b) == IF a >= b THEN a ELSE b
Min(a, b) == IF a <= b THEN a ELSE b

\* The ledger as one that counts approved reservations only
ApprovedOverlapping(rs, s, e) ==
    {i \in DOMAIN rs : /\ rs[i].status = APPROVED
                       /\ Overlaps(rs[i].start, rs[i].end, s, e)}

\* The ledger as one that goes on counting rejected reservations
UnrejectedOverlapping(rs, s, e) ==
    {i \in DOMAIN rs : /\ rs[i].status \in {PENDING, APPROVED, REJECTED}
                       /\ Overlaps(rs[i].start, rs[i].end, s, e)}

\* The reservations counted by the stock ledger, and the availability itself
ActiveOverlapping(rs, s, e) ==
    {i \in DOMAIN rs : /\ rs[i].status \in {PENDING, APPROVED}
                       /\ Overlaps(rs[i].start, rs[i].end, s, e)}

\* The availability as one that counts the rows of every resource
check_resource_availability_any_row(rs, us, resource, s, e) ==
    LET overlaps == ActiveOverlapping(rs, s, e)
        usage_qs == {u \in us : u.reservation \in overlaps}
    IN  Max(0, catalog.resources[resource].quantity - SumQty(usage_qs))

check_resource_availability(rs, us, resource, s, e) ==
    LET overlaps == ActiveOverlapping(rs, s, e)
        usage_qs == {u \in us : u.resource = resource /\ u.reservation \in overlaps}
    IN  Max(0, catalog.resources[resource].quantity - SumQty(usage_qs))

\* The conflict query of approve_or_reject, as a query that only matches an
\* APPROVED row of the very same slot, and as one that looks at PENDING rows
HasConflictSameSlot(rs, pk) ==
    \E j \in DOMAIN rs :
        /\ rs[j].space = rs[pk].space
        /\ rs[j].status = APPROVED
        /\ j # pk
        /\ rs[j].start = rs[pk].start
        /\ rs[j].end = rs[pk].end

HasConflictPending(rs, pk) ==
    \E j \in DOMAIN rs :
        /\ rs[j].space = rs[pk].space
        /\ rs[j].status = PENDING
        /\ j # pk
        /\ Overlaps(rs[j].start, rs[j].end, rs[pk].start, rs[pk].end)

\* The conflict query as one that leaves out the filter on the space
HasConflictAnySpace(rs, pk) ==
    \E j \in DOMAIN rs :
        /\ rs[j].status = APPROVED
        /\ j # pk
        /\ Overlaps(rs[j].start, rs[j].end, rs[pk].start, rs[pk].end)

\* The conflict query as one that goes by the decisions on record instead of
\* the statuses of the reservations
HasConflictOnRecord(rs, pk) ==
    \E j \in DOMAIN rs :
        /\ rs[j].space = rs[pk].space
        /\ \E a \in approvals : a.reservation = j /\ a.decision = "APPR"
        /\ j # pk
        /\ Overlaps(rs[j].start, rs[j].end, rs[pk].start, rs[pk].end)

\* The conflict query of approve_or_reject
HasConflict(rs, pk) ==
    \E j \in DOMAIN rs :
        /\ rs[j].space = rs[pk].space
        /\ rs[j].status = APPROVED
        /\ j # pk
        /\ Overlaps(rs[j].start, rs[j].end, rs[pk].start, rs[pk].end)

\* The lookup as one that falls back on the staff when the group is missing
GroupMembersOrStaff(name) == IF name \in DOMAIN groups THEN groups[name] ELSE StaffUsers

\* users of a group; a missing group has none
GroupMembers(name) == IF name \in DOMAIN groups THEN groups[name] ELSE {}

RECURSIVE SetToSeq(_)
SetToSeq(S) ==
    IF S = {} THEN <<>>
    ELSE LET x == CHOOSE y \in S : TRUE IN <<x>> \o SetToSeq(S \ {x})

_notify_user(user, kind, pk) == <<[user |-> user, kind |-> kind, reservation |-> pk]>>

_notify_group(name, kind, pk) ==
    LET members == SetToSeq(GroupMembers(name))
    IN  [i \in 1..Len(members) |-> [user |-> members[i], kind |-> kind, reservation |-> pk]]

notify_cleaning_staff(kind, pk) == _notify_group(CLEANING_GROUP_NAME, kind, pk)

\* Addresses that login requests come from
ClientIps == {"10.0.0.1", "10.0.0.2"}

\* A cache with no key set: cache.get gives 0 attempts and no block
EmptyCache == [attempts |-> [ip \in ClientIps |-> 0], block |-> [ip \in ClientIps |-> FALSE]]

----------------------------------------------------------------------------
Init ==
    /\ reservations = <<>>
    /\ usages = {}
    /\ approvals = {}
    /\ groups = [g \in {CLEANING_GROUP_NAME} |-> {"carlos", "dora"}]
    /\ catalog = Catalog
    /\ cache = EmptyCache
    /\ now = 0
    /\ emitted = <<>>
    /\ outcome = [op |-> "none", pk |-> 0, result |-> "-"]
    /\ inflight = [w \in Workers |-> Idle]

\* The request of a create: what the form and the POST carry.  quantity[r] = 0
\* stands both for a resource left out of the list and for one listed with a
\* quantity below 1: neither is checked and neither gets a row.  Every listed
\* resource exists, is listed once, and its quantity parses as an integer.
Requests == [Resources -> 0..MaxQty]

Requested(quantity) == {r \in Resources : quantity[r] >= 1}

\* The check as a loop that stops at the first resource that passes
ShortUnlessOnePasses(rs, us, s, e, quantity) ==
    LET short == {r \in Requested(quantity) :
                     check_resource_availability(rs, us, r, s, e) < quantity[r]}
    IN  IF short = Requested(quantity) THEN short ELSE {}

\* The check as one that also turns down a slot that an active reservation takes
ShortOrSlotTaken(rs, us, s, e, quantity) ==
    IF ActiveOverlapping(rs, s, e) # {} THEN Resources
    ELSE {r \in Requested(quantity) :
             check_resource_availability(rs, us, r, s, e) < quantity[r]}

\* The resources whose check at lines 363-366 fails
Short(rs, us, s, e, quantity) ==
    {r \in Requested(quantity) : check_resource_availability(rs, us, r, s, e) < quantity[r]}

NewReservation(user, space, s, e, quantity) ==
    [user |-> user, space |-> space, start |-> s, end |-> e, status |-> PENDING,
     purpose |-> quantity, cancel_reason |-> NoReason]

\* The loop as one that writes a row for every resource, asked for or not
UsageRowsForAll(pk, quantity, failing) ==
    {[reservation |-> pk, resource |-> r, quantity |-> quantity[r]] :
        r \in Resources \ failing}

\* Rows written by the loop at lines 396-407; a write that raises is swallowed
UsageRows(pk, quantity, failing) ==
    {[reservation |-> pk, resource |-> r, quantity |-> quantity[r]] :
        r \in {x \in Resources : quantity[x] > 0} \ failing}

\* The loop as one that tells the deciding staff only
StaffNotificationsToDeciders(pk) ==
    LET admins == SetToSeq(StaffUsers)
    IN  [i \in 1..Len(admins) |-> [user |-> admins[i], kind |-> "pending", reservation |-> pk]]

\* One row for each Profile of a staff user (lines 416-417)
StaffNotifications(pk) ==
    LET admins == SetToSeq(StaffProfiles)
    IN  [i \in 1..Len(admins) |-> [user |-> admins[i], kind |-> "pending", reservation |-> pk]]

\* The view as one that takes what it hands out from the resource's quantity
CreateOnTakingStock(user, space, s, e, quantity, failing) ==
    IF ~(s < e) THEN
        /\ outcome' = [op |-> "create", pk |-> 0, result |-> "InvalidArgument"]
        /\ emitted' = <<>>
        /\ UNCHANGED <<reservations, usages, approvals, groups, catalog, cache, now, inflight>>
    ELSE IF Short(reservations, usages, s, e, quantity) # {} THEN
        /\ outcome' = [op |-> "create", pk |-> 0, result |-> "InsufficientResource"]
        /\ emitted' = <<>>
        /\ UNCHANGED <<reservations, usages, approvals, groups, catalog, cache, now, inflight>>
    ELSE
        LET pk == Len(reservations) + 1 IN
        /\ Len(reservations) < MaxRes
        /\ reservations' = Append(reservations, NewReservation(user, space, s, e, quantity))
        /\ usages' = usages \cup UsageRows(pk, quantity, failing)
        /\ catalog' = [catalog EXCEPT !.resources =
               [r \in Resources |-> [@[r] EXCEPT !.quantity = @ - quantity[r]]]]
        /\ emitted' = StaffNotifications(pk)
        /\ outcome' = [op |-> "create", pk |-> pk, result |-> "ok"]
        /\ UNCHANGED <<approvals, groups, cache, now, inflight>>

\* ReservationCreateView.form_valid, preceded by the form's own validation.
\* failing: the resources whose usage-row insert raises.
CreateOn(user, space, s, e, quantity, failing) ==
    IF ~(s < e) THEN
        /\ outcome' = [op |-> "create", pk |-> 0, result |-> "InvalidArgument"]
        /\ emitted' = <<>>
        /\ UNCHANGED <<reservations, usages, approvals, groups, catalog, cache, now, inflight>>
    ELSE IF Short(reservations, usages, s, e, quantity) # {} THEN
        /\ outcome' = [op |-> "create", pk |-> 0, result |-> "InsufficientResource"]
        /\ emitted' = <<>>
        /\ UNCHANGED <<reservations, usages, approvals, groups, catalog, cache, now, inflight>>
    ELSE
        LET pk == Len(reservations) + 1 IN
        /\ Len(reservations) < MaxRes
        /\ reservations' = Append(reservations, NewReservation(user, space, s, e, quantity))
        /\ usages' = usages \cup UsageRows(pk, quantity, failing)
        /\ emitted' = StaffNotifications(pk)
        /\ outcome' = [op |-> "create", pk |-> pk, result |-> "ok"]
        /\ UNCHANGED <<approvals, groups, catalog, cache, now, inflight>>

NoResources == [r \in Resources |-> 0]

\* A create that asks for a space and a slot only
Create ==
    \E user \in Owners, space \in Spaces, s \in Times, e \in Times :
        CreateOn(user, space, s, e, NoResources, {})

\* A create on one space, for a well-formed slot, that also asks for resources
CreateWithResources ==
    \E user \in Owners, s \in Times, e \in Times, quantity \in Requests :
        s < e /\ CreateOn(user, "LabA", s, e, quantity, {})

\* A create on any space, for a well-formed slot, that also asks for resources
CreateAnywhere ==
    \E user \in Owners, space \in Spaces, s \in Times, e \in Times, quantity \in Requests :
        s < e /\ CreateOn(user, space, s, e, quantity, {})

\* A create for the last slot of the day, with or without one projector
CreateLate ==
    \E user \in Owners, space \in Spaces, quantity \in Requests :
        /\ quantity["proyector"] <= 1
        /\ quantity["sillas"] = 0
        /\ CreateOn(user, space, 2, 3, quantity, {})

\* A create by any user, on any space, that may ask for projectors
CreateByAnyUser ==
    \E user \in Users, space \in Spaces, x \in Times \X Times, quantity \in Requests :
        /\ x[1] < x[2]
        /\ quantity["sillas"] = 0
        /\ CreateOn(user, space, x[1], x[2], quantity, {})

\* The same, with a storage that may refuse any of the usage-row inserts
CreateFaulty ==
    \E user \in Owners, s \in Times, e \in Times, quantity \in Requests :
        \E failing \in SUBSET Requested(quantity) :
            s < e /\ CreateOn(user, "LabA", s, e, quantity, failing)

----------------------------------------------------------------------------
(* approve_or_reject *)

\* The rewriting as one that knows the approve button only
NormalizeApproveOnly(raw) == IF raw = "approve" THEN "APPR" ELSE raw

\* The two button values are rewritten to the form's choices (lines 493-496)
NormalizeDecision(raw) ==
    IF raw \in {"approve", "reject"}
    THEN (IF raw = "approve" THEN "APPR" ELSE "REJ")
    ELSE raw

RawDecisions == {"approve", "reject", "APPR", "REJ", "maybe"}

\* ApprovalForm accepts the two choices only
FormIsValid(decision) == decision \in {"APPR", "REJ"}

\* The write as a plain insert of a new Approval row
InsertApproval(as, pk, approver, decision, notes) ==
    as \cup {[reservation |-> pk, approver |-> approver, decision |-> decision, notes |-> notes]}

\* Approval.objects.update_or_create(reservation=..., defaults=...)
UpdateOrCreateApproval(as, pk, approver, decision, notes) ==
    {a \in as : a.reservation # pk}
        \cup {[reservation |-> pk, approver |-> approver, decision |-> decision, notes |-> notes]}

\* The status assigned at lines 526-545
DecidedStatus(decision) == IF decision = "APPR" THEN APPROVED ELSE REJECTED

\* reservation.save(): the loaded row, with its new status, replaces the stored row
SaveReservation(rs, pk, row) == [rs EXCEPT ![pk] = row]

\* The notifications of a decision as rows for the owner alone
DecisionNotificationsOwnerOnly(row, pk, decision) ==
    IF decision = "APPR"
    THEN _notify_user(row.user, "approved", pk)
    ELSE _notify_user(row.user, "rejected", pk)

DecisionNotifications(row, pk, decision) ==
    IF decision = "APPR"
    THEN _notify_user(row.user, "approved", pk) \o notify_cleaning_staff("prepare", pk)
    ELSE _notify_user(row.user, "rejected", pk)

\* The view as one that runs the conflict query before either decision
DecideOnCheckingAlways(approver, pk, raw, notes) ==
    LET decision == NormalizeDecision(raw) IN
    IF pk \notin Ids THEN
        /\ outcome' = [op |-> "decide", pk |-> pk, result |-> "NotFound"]
        /\ emitted' = <<>>
        /\ UNCHANGED <<reservations, usages, approvals, groups, catalog, cache, now, inflight>>
    ELSE IF ~FormIsValid(decision) THEN
        /\ outcome' = [op |-> "decide", pk |-> pk, result |-> "InvalidDecision"]
        /\ emitted' = <<>>
        /\ UNCHANGED <<reservations, usages, approvals, groups, catalog, cache, now, inflight>>
    ELSE IF HasConflict(reservations, pk) THEN
        /\ outcome' = [op |-> "decide", pk |-> pk, result |-> "SchedulingConflict"]
        /\ emitted' = <<>>
        /\ UNCHANGED <<reservations, usages, approvals, groups, catalog, cache, now, inflight>>
    ELSE
        /\ approvals' = UpdateOrCreateApproval(approvals, pk, approver, decision, notes)
        /\ reservations' = SaveReservation(reservations, pk,
               [reservations[pk] EXCEPT !.status = DecidedStatus(decision)])
        /\ emitted' = DecisionNotifications(reservations[pk], pk, decision)
        /\ outcome' = [op |-> "decide", pk |-> pk, result |-> decision]
        /\ UNCHANGED <<usages, groups, catalog, cache, now, inflight>>

DecideOn(approver, pk, raw, notes) ==
    LET decision == NormalizeDecision(raw) IN
    IF pk \notin Ids THEN
        /\ outcome' = [op |-> "decide", pk |-> pk, result |-> "NotFound"]
        /\ emitted' = <<>>
        /\ UNCHANGED <<reservations, usages, approvals, groups, catalog, cache, now, inflight>>
    ELSE IF ~FormIsValid(decision) THEN
        /\ outcome' = [op |-> "decide", pk |-> pk, result |-> "InvalidDecision"]
        /\ emitted' = <<>>
        /\ UNCHANGED <<reservations, usages, approvals, groups, catalog, cache, now, inflight>>
    ELSE IF decision = "APPR" /\ HasConflict(reservations, pk) THEN
        /\ outcome' = [op |-> "decide", pk |-> pk, result |-> "SchedulingConflict"]
        /\ emitted' = <<>>
        /\ UNCHANGED <<reservations, usages, approvals, groups, catalog, cache, now, inflight>>
    ELSE
        /\ approvals' = UpdateOrCreateApproval(approvals, pk, approver, decision, notes)
        /\ reservations' = SaveReservation(reservations, pk,
               [reservations[pk] EXCEPT !.status = DecidedStatus(decision)])
        /\ emitted' = DecisionNotifications(reservations[pk], pk, decision)
        /\ outcome' = [op |-> "decide", pk |-> pk, result |-> decision]
        /\ UNCHANGED <<usages, groups, catalog, cache, now, inflight>>

Decide ==
    \E approver \in StaffUsers, pk \in 1..MaxRes, raw \in RawDecisions, notes \in Notes :
        DecideOn(approver, pk, raw, notes)

\* A well-formed decision on an existing reservation
DecideExisting ==
    \E approver \in StaffUsers, pk \in Ids, raw \in {"approve", "reject"}, notes \in Notes :
        DecideOn(approver, pk, raw, notes)

\* Decisions by either of two staff users, with either of two notes
Approvers == {"sofia", "tomas"}
NoteTexts == {"ok", "no"}

DecideVaried ==
    \E approver \in Approvers, pk \in Ids, raw \in {"approve", "reject"}, notes \in NoteTexts :
        DecideOn(approver, pk, raw, notes)

----------------------------------------------------------------------------
(* cancel_reservation *)

RECURSIVE LStrip(_)
LStrip(s) == IF s # <<>> /\ Head(s) = " " THEN LStrip(Tail(s)) ELSE s

RECURSIVE RStrip(_)
RStrip(s) == IF s # <<>> /\ s[Len(s)] = " " THEN RStrip(SubSeq(s, 1, Len(s) - 1)) ELSE s

\* The reason as it is without the cut to the length of the column
CleanReasonUncut(reason) == RStrip(LStrip(reason))

\* (request.POST.get("reason") or "").strip()[:255]
CleanReason(reason) ==
    LET stripped == RStrip(LStrip(reason))
    IN  SubSeq(stripped, 1, Min(Len(stripped), CancelReasonMax))

\* Reservation.can_cancel()
can_cancel(row, clock) ==
    /\ row.status \in {PENDING, APPROVED}
    /\ clock < row.start - MinCancelWindow

\* Reservation.cancel_by_user(reason, actor)
cancel_by_user(row, reason) == [row EXCEPT !.status = CANCELLED, !.cancel_reason = reason]

\* The refusal as a view that reports the error and cancels all the same
CancelRefusedFallsThrough(pk) ==
    /\ outcome' = [op |-> "cancel", pk |-> pk, result |-> "ok"]
    /\ reservations' = SaveReservation(reservations, pk,
           cancel_by_user(reservations[pk], <<>>))
    /\ emitted' = notify_cleaning_staff("cancelled", pk)
    /\ UNCHANGED <<usages, approvals, groups, catalog, cache, now, inflight>>

\* The refusal as a view that has already told the cleaning staff
CancelRefusedButAnnounced(pk) ==
    /\ outcome' = [op |-> "cancel", pk |-> pk, result |-> "CancellationNotAllowed"]
    /\ emitted' = notify_cleaning_staff("cancelled", pk)
    /\ UNCHANGED <<reservations, usages, approvals, groups, catalog, cache, now, inflight>>

\* The error message and the redirect of lines 455-460
CancelRefused(pk) ==
    /\ outcome' = [op |-> "cancel", pk |-> pk, result |-> "CancellationNotAllowed"]
    /\ emitted' = <<>>
    /\ UNCHANGED <<reservations, usages, approvals, groups, catalog, cache, now, inflight>>

\* The lookup as one that also finds any reservation for a staff user
FoundForOwnerOrStaff(actor, pk) ==
    /\ pk \in Ids
    /\ (reservations[pk].user = actor \/ actor \in StaffUsers)

\* get_object_or_404(Reservation, pk=pk, user=request.user) finds a row
FoundForOwner(actor, pk) ==
    /\ pk \in Ids
    /\ reservations[pk].user = actor

CancelOn(actor, pk, reason) ==
    IF ~FoundForOwner(actor, pk) THEN
        /\ outcome' = [op |-> "cancel", pk |-> pk, result |-> "NotFound"]
        /\ emitted' = <<>>
        /\ UNCHANGED <<reservations, usages, approvals, groups, catalog, cache, now, inflight>>
    ELSE IF ~can_cancel(reservations[pk], now) THEN
        CancelRefused(pk)
    ELSE
        /\ reservations' = SaveReservation(reservations, pk,
               cancel_by_user(reservations[pk], CleanReason(reason)))
        /\ emitted' = notify_cleaning_staff("cancelled", pk)
        /\ outcome' = [op |-> "cancel", pk |-> pk, result |-> "ok"]
        /\ UNCHANGED <<usages, approvals, groups, catalog, cache, now, inflight>>

Cancel ==
    \E actor \in Users \cup StaffUsers, pk \in 1..MaxRes, reason \in Reasons :
        CancelOn(actor, pk, reason)

\* A cancel by the owner
CancelOwn ==
    \E pk \in Ids, reason \in Reasons :
        CancelOn(reservations[pk].user, pk, reason)

\* Reasons a cancel form can carry: none, short ones with and without blanks
\* around them, and ones longer than the column, bare and after a blank
LongReason == [i \in 1..(CancelReasonMax + 2) |-> IF i > CancelReasonMax THEN "y" ELSE "x"]
ReasonTexts ==
    {<<>>, <<" ">>, <<"x">>, <<" ", "x", " ", "y", " ">>, LongReason, <<" ">> \o LongReason}

\* A cancel by the owner, with any of these reasons
CancelReasoned ==
    \E pk \in Ids, reason \in ReasonTexts :
        CancelOn(reservations[pk].user, pk, reason)

\* Time passes between requests
Tick ==
    /\ now < MaxNow
    /\ now' = now + 1
    /\ UNCHANGED <<reservations, usages, approvals, groups, catalog, cache, emitted, outcome, inflight>>

----------------------------------------------------------------------------
(* Requests served one at a time *)

Next == Create \/ Decide \/ Cancel \/ Tick

Spec == Init /\ [][Next]_vars

\* The same with resource requests, on one space, at one instant
NextStock == CreateWithResources \/ DecideExisting \/ CancelOwn

SpecStock == Init /\ [][NextStock]_vars

\* Resource requests on every space
NextLedger == CreateAnywhere \/ DecideExisting \/ CancelOwn

SpecLedger == Init /\ [][NextLedger]_vars

\* The cleaning group as the deployment may have it: staff only, with a
\* requester among its members, or not created at all
GroupTables ==
    {[g \in {CLEANING_GROUP_NAME} |-> {"carlos", "dora"}],
     [g \in {CLEANING_GROUP_NAME} |-> {"carlos", "ana"}],
     [g \in {} |-> {}]}

InitAnyGroups ==
    /\ reservations = <<>>
    /\ usages = {}
    /\ approvals = {}
    /\ groups \in GroupTables
    /\ catalog = Catalog
    /\ cache = EmptyCache
    /\ now = 0
    /\ emitted = <<>>
    /\ outcome = [op |-> "none", pk |-> 0, result |-> "-"]
    /\ inflight = [w \in Workers |-> Idle]

\* Cancels with reasons of every shape, under each of these group tables
NextCancel == CreateLate \/ DecideExisting \/ CancelReasoned

SpecCancel == InitAnyGroups /\ [][NextCancel]_vars

\* Decisions and re-decisions by several approvers
NextRedecide == Create \/ DecideVaried

SpecRedecide == Init /\ [][NextRedecide]_vars

\* Creates by several users among decisions and cancels
NextCreate == CreateByAnyUser \/ DecideExisting \/ CancelOwn

SpecCreate == Init /\ [][NextCreate]_vars

\* Resource requests against a storage whose usage-row inserts may fail
NextFaulty == CreateFaulty \/ CancelOwn

SpecFaulty == Init /\ [][NextFaulty]_vars

----------------------------------------------------------------------------
(* Requests served by concurrent workers.  Neither view opens a transaction, *)
(* so every query and every write of a handler is a step of its own.        *)

\* Each worker serves one request
Free(w) == inflight[w].op = "idle"

\* What a worker keeps of a request it has answered
Finished(op, pk, result) == [op |-> op, pc |-> "done", pk |-> pk, result |-> result]

\* reservation = get_object_or_404(Reservation, pk=pk); the form is bound and valid
DecideLoad(w) ==
    \E approver \in StaffUsers, pk \in Ids, raw \in {"approve", "reject"}, notes \in Notes :
        /\ Free(w)
        /\ inflight' = [inflight EXCEPT ![w] =
               [op |-> "decide", pc |-> "check", pk |-> pk, row |-> reservations[pk],
                approver |-> approver, decision |-> NormalizeDecision(raw),
                notes |-> notes, result |-> "-"]]
        /\ UNCHANGED <<reservations, usages, approvals, groups, catalog, cache, now, emitted, outcome>>

\* the conflict query, against the table as it is now
DecideCheck(w) ==
    /\ inflight[w].op = "decide" /\ inflight[w].pc = "check"
    /\ IF inflight[w].decision = "APPR" /\ HasConflict(reservations, inflight[w].pk)
       THEN /\ inflight' = [inflight EXCEPT ![w] = Finished("decide", inflight[w].pk, "SchedulingConflict")]
            /\ outcome' = [op |-> "decide", pk |-> inflight[w].pk, result |-> "SchedulingConflict"]
            /\ emitted' = <<>>
       ELSE /\ inflight' = [inflight EXCEPT ![w].pc = "record"]
            /\ UNCHANGED <<outcome, emitted>>
    /\ UNCHANGED <<reservations, usages, approvals, groups, catalog, cache, now>>

\* update_or_create of the Approval, then the notifications
DecideRecord(w) ==
    LET f == inflight[w] IN
    /\ f.op = "decide" /\ f.pc = "record"
    /\ approvals' = UpdateOrCreateApproval(approvals, f.pk, f.approver, f.decision, f.notes)
    /\ emitted' = DecisionNotifications(f.row, f.pk, f.decision)
    /\ inflight' = [inflight EXCEPT ![w].pc = "save"]
    /\ UNCHANGED <<reservations, usages, groups, catalog, cache, now, outcome>>

\* reservation.save() of the row loaded at the start
DecideSave(w) ==
    LET f == inflight[w] IN
    /\ f.op = "decide" /\ f.pc = "save"
    /\ reservations' = SaveReservation(reservations, f.pk,
           [f.row EXCEPT !.status = DecidedStatus(f.decision)])
    /\ inflight' = [inflight EXCEPT ![w] = Finished("decide", f.pk, f.decision)]
    /\ outcome' = [op |-> "decide", pk |-> f.pk, result |-> f.decision]
    /\ UNCHANGED <<usages, approvals, groups, catalog, cache, now, emitted>>

NextApproveRace ==
    \/ Create
    \/ \E w \in Workers : DecideLoad(w)
    \/ \E w \in Workers : DecideCheck(w)
    \/ \E w \in Workers : DecideRecord(w)
    \/ \E w \in Workers : DecideSave(w)

SpecApproveRace == Init /\ [][NextApproveRace]_vars

\* Decisions in steps while owners cancel: cancel_reservation loads, changes
\* and saves the row in between two steps of a decision
NextDecideCancelRace ==
    \/ CreateLate
    \/ CancelOwn
    \/ \E w \in Workers : DecideLoad(w)
    \/ \E w \in Workers : DecideCheck(w)
    \/ \E w \in Workers : DecideRecord(w)
    \/ \E w \in Workers : DecideSave(w)

SpecDecideCancelRace == Init /\ [][NextDecideCancelRace]_vars

\* The availability loop of form_valid (lines 357-368), against the table as it is now
CreateCheck(w) ==
    \E user \in Owners, s \in Times, e \in Times, quantity \in Requests :
        /\ Free(w)
        /\ s < e
        /\ IF Short(reservations, usages, s, e, quantity) # {}
           THEN /\ inflight' = [inflight EXCEPT ![w] = Finished("create", 0, "InsufficientResource")]
                /\ outcome' = [op |-> "create", pk |-> 0, result |-> "InsufficientResource"]
                /\ emitted' = <<>>
           ELSE /\ inflight' = [inflight EXCEPT ![w] =
                       [op |-> "create", pc |-> "write", user |-> user, start |-> s, end |-> e,
                        quantity |-> quantity, pk |-> 0, result |-> "-"]]
                /\ UNCHANGED <<outcome, emitted>>
        /\ UNCHANGED <<reservations, usages, approvals, groups, catalog, cache, now>>

\* super().form_valid(form), the usage rows and the notifications (lines 392-417)
CreateWrite(w) ==
    LET f == inflight[w]
        pk == Len(reservations) + 1
    IN
    /\ f.op = "create" /\ f.pc = "write"
    /\ Len(reservations) < MaxRes
    /\ reservations' = Append(reservations, NewReservation(f.user, "LabA", f.start, f.end, f.quantity))
    /\ usages' = usages \cup UsageRows(pk, f.quantity, {})
    /\ emitted' = StaffNotifications(pk)
    /\ outcome' = [op |-> "create", pk |-> pk, result |-> "ok"]
    /\ inflight' = [inflight EXCEPT ![w] = Finished("create", pk, "ok")]
    /\ UNCHANGED <<approvals, groups, catalog, cache, now>>

NextCreateRace ==
    \/ \E w \in Workers : CreateCheck(w)
    \/ \E w \in Workers : CreateWrite(w)

SpecCreateRace == Init /\ [][NextCreateRace]_vars

----------------------------------------------------------------------------
(* Requests during which Notification.objects.create raises *)

\* The rows written before the insert that raises
WrittenBeforeFailure(rows) == {SubSeq(rows, 1, k - 1) : k \in 1..Len(rows)}

\* form_valid up to the loop at lines 416-417, which raises
CreateSinkFails ==
    \E user \in Owners, space \in Spaces, s \in Times, e \in Times :
        LET pk == Len(reservations) + 1 IN
        /\ s < e
        /\ Short(reservations, usages, s, e, NoResources) = {}
        /\ Len(reservations) < MaxRes
        /\ reservations' = Append(reservations, NewReservation(user, space, s, e, NoResources))
        /\ usages' = usages \cup UsageRows(pk, NoResources, {})
        /\ emitted' \in WrittenBeforeFailure(StaffNotifications(pk))
        /\ outcome' = [op |-> "create", pk |-> pk, result |-> "ServerError"]
        /\ UNCHANGED <<approvals, groups, catalog, cache, now, inflight>>

\* approve_or_reject up to _notify_user or notify_cleaning_staff, which raises:
\* the Approval is written, reservation.save() at line 553 is not reached
DecideSinkFails ==
    \E approver \in StaffUsers, pk \in Ids, raw \in {"approve", "reject"}, notes \in Notes :
        LET decision == NormalizeDecision(raw) IN
        /\ FormIsValid(decision)
        /\ ~(decision = "APPR" /\ HasConflict(reservations, pk))
        /\ approvals' = UpdateOrCreateApproval(approvals, pk, approver, decision, notes)
        /\ emitted' \in WrittenBeforeFailure(DecisionNotifications(reservations[pk], pk, decision))
        /\ outcome' = [op |-> "decide", pk |-> pk, result |-> "ServerError"]
        /\ UNCHANGED <<reservations, usages, groups, catalog, cache, now, inflight>>

\* cancel_reservation up to notify_cleaning_staff at line 473, which raises
CancelSinkFails ==
    \E pk \in Ids, reason \in Reasons :
        /\ can_cancel(reservations[pk], now)
        /\ reservations' = SaveReservation(reservations, pk,
               cancel_by_user(reservations[pk], CleanReason(reason)))
        /\ emitted' \in WrittenBeforeFailure(notify_cleaning_staff("cancelled", pk))
        /\ outcome' = [op |-> "cancel", pk |-> pk, result |-> "ServerError"]
        /\ UNCHANGED <<usages, approvals, groups, catalog, cache, now, inflight>>

NextSinkFaulty ==
    \/ Create \/ DecideExisting \/ CancelOwn
    \/ CreateSinkFails \/ DecideSinkFails \/ CancelSinkFails

SpecSinkFaulty == Init /\ [][NextSinkFaulty]_vars

----------------------------------------------------------------------------
(* resource_availability and resource_availability_bulk.  Every GET         *)
(* parameter is present and parses; what varies is the resource id and the *)
(* two ends of the interval, in either order.                              *)

\* Ids a client may send: those of the catalog and one that no row has
ResourceIds == Resources \cup {"fantasma"}

\* Resource.DoesNotExist gives the 404 of line 840; otherwise the JSON of line 837
resource_availability_response(resource_id, s, e) ==
    IF resource_id \notin DOMAIN catalog.resources THEN
        [op |-> "availability", pk |-> 0, result |-> "NotFound"]
    ELSE
        [op |-> "availability", pk |-> 0, result |-> "ok",
         available |-> check_resource_availability(reservations, usages, resource_id, s, e),
         total |-> catalog.resources[resource_id].quantity]

\* The bulk answer as one with an entry for every Resource row
resource_availability_bulk_all(s, e) ==
    [op |-> "availability_bulk", pk |-> 0, result |-> "ok",
     resources |->
         [r \in DOMAIN catalog.resources
             |-> [available |-> check_resource_availability(reservations, usages, r, s, e),
                  total |-> catalog.resources[r].quantity]]]

\* The JSON of lines 871-879: one entry per Resource with is_active
resource_availability_bulk_response(s, e) ==
    [op |-> "availability_bulk", pk |-> 0, result |-> "ok",
     resources |->
         [r \in {x \in DOMAIN catalog.resources : catalog.resources[x].is_active}
             |-> [available |-> check_resource_availability(reservations, usages, r, s, e),
                  total |-> catalog.resources[r].quantity]]]

\* The single query as one that leaves a row behind for the staff
resource_availability_logged(resource_id, s, e) ==
    /\ outcome' = resource_availability_response(resource_id, s, e)
    /\ emitted' = StaffNotifications(0)
    /\ UNCHANGED <<reservations, usages, approvals, groups, catalog, cache, now, inflight>>

\* The GET handler of the single query
resource_availability(resource_id, s, e) ==
    /\ outcome' = resource_availability_response(resource_id, s, e)
    /\ emitted' = <<>>
    /\ UNCHANGED <<reservations, usages, approvals, groups, catalog, cache, now, inflight>>

\* The GET handler of the bulk query
resource_availability_bulk(s, e) ==
    /\ outcome' = resource_availability_bulk_response(s, e)
    /\ emitted' = <<>>
    /\ UNCHANGED <<reservations, usages, approvals, groups, catalog, cache, now, inflight>>

Query ==
    \E resource_id \in ResourceIds, s \in Times, e \in Times :
        resource_availability(resource_id, s, e)

QueryBulk == \E s \in Times, e \in Times : resource_availability_bulk(s, e)

\* Queries between the requests that change the ledger
NextQuery == CreateLate \/ DecideExisting \/ CancelOwn \/ Query \/ QueryBulk

SpecQuery == Init /\ [][NextQuery]_vars

\* ResourceUpdateView: a staff user sets or clears is_active of a Resource
ResourceUpdate ==
    \E r \in Resources, flag \in BOOLEAN :
        /\ catalog' = [catalog EXCEPT !.resources[r].is_active = flag]
        /\ outcome' = [op |-> "resource_update", pk |-> 0, result |-> "ok"]
        /\ emitted' = <<>>
        /\ UNCHANGED <<reservations, usages, approvals, groups, cache, now, inflight>>

\* Queries while the catalog is being managed
NextCatalogQuery == NextQuery \/ ResourceUpdate

SpecCatalogQuery == Init /\ [][NextCatalogQuery]_vars

----------------------------------------------------------------------------
(* UserLoginView.  Both cache keys of an address are set for the same time *)
(* to live, the attempts key first, and a blocked address sets neither: the *)
(* attempts key is gone by the time the block key goes.                    *)

\* The failures at which form_invalid sets the block key
MaxLoginAttempts == 5

\* The view as one that lets correct credentials through before the block
UserLoginPostCredentialsFirst(ip, valid) ==
    /\ IF valid THEN
           /\ cache' = [cache EXCEPT !.attempts[ip] = 0]
           /\ outcome' = [op |-> "login", pk |-> 0, result |-> "ok", ip |-> ip]
       ELSE IF cache.block[ip] THEN
           /\ outcome' = [op |-> "login", pk |-> 0, result |-> "blocked", ip |-> ip]
           /\ UNCHANGED cache
       ELSE
           LET attempts == cache.attempts[ip] + 1 IN
           /\ cache' = [cache EXCEPT !.attempts[ip] = attempts,
                                     !.block[ip] = (attempts >= MaxLoginAttempts)]
           /\ outcome' = [op |-> "login", pk |-> 0, result |-> "failed", ip |-> ip]
    /\ emitted' = <<>>
    /\ UNCHANGED <<reservations, usages, approvals, groups, catalog, now, inflight>>

\* post, then form_invalid or form_valid.  valid: the credentials are right
UserLoginPost(ip, valid) ==
    /\ IF cache.block[ip] THEN
           /\ outcome' = [op |-> "login", pk |-> 0, result |-> "blocked", ip |-> ip]
           /\ UNCHANGED cache
       ELSE IF ~valid THEN
           LET attempts == cache.attempts[ip] + 1 IN
           /\ cache' = [cache EXCEPT !.attempts[ip] = attempts,
                                     !.block[ip] = (attempts >= MaxLoginAttempts)]
           /\ outcome' = [op |-> "login", pk |-> 0, result |-> "failed", ip |-> ip]
       ELSE
           /\ cache' = [cache EXCEPT !.attempts[ip] = 0]
           /\ outcome' = [op |-> "login", pk |-> 0, result |-> "ok", ip |-> ip]
    /\ emitted' = <<>>
    /\ UNCHANGED <<reservations, usages, approvals, groups, catalog, now, inflight>>

Login == \E ip \in ClientIps, valid \in BOOLEAN : UserLoginPost(ip, valid)

\* The attempts key of an address reaches the end of its time to live
ExpireAttempts ==
    \E ip \in ClientIps :
        /\ cache.attempts[ip] > 0
        /\ cache' = [cache EXCEPT !.attempts[ip] = 0]
        /\ UNCHANGED <<reservations, usages, approvals, groups, catalog, now, emitted,
                       outcome, inflight>>

\* The block key of an address reaches the end of its time to live
ExpireBlock ==
    \E ip \in ClientIps :
        /\ cache.block[ip]
        /\ cache' = [cache EXCEPT !.attempts[ip] = 0, !.block[ip] = FALSE]
        /\ UNCHANGED <<reservations, usages, approvals, groups, catalog, now, emitted,
                       outcome, inflight>>

NextLogin == Login \/ ExpireAttempts \/ ExpireBlock

SpecLogin == Init /\ [][NextLogin]_vars

----------------------------------------------------------------------------
(* Properties *)

Active(i) == reservations[i].status \in {PENDING, APPROVED}

\* Units of resource r committed at instant t by the active reservations
Committed(r, t) ==
    SumQty({u \in usages : /\ u.resource = r
                           /\ Active(u.reservation)
                           /\ reservations[u.reservation].start <= t
                           /\ t < reservations[u.reservation].end})

SameSpaceOverlap(i, j) ==
    /\ i # j
    /\ reservations[i].space = reservations[j].space
    /\ reservations[i].start < reservations[j].end
    /\ reservations[j].start < reservations[i].end

\* C1: with requests served one at a time, no two distinct APPROVED
\* reservations of one space ever have overlapping half-open intervals.
C1_NoOverlappingApproved ==
    \A i \in Ids, j \in Ids :
        (reservations[i].status = APPROVED /\ reservations[j].status = APPROVED)
            => ~SameSpaceOverlap(i, j)

\* C1 happens: one space holds two APPROVED reservations, back to back.
C1_TwoApprovedOnOneSpace ==
    \E i \in Ids, j \in Ids :
        /\ i # j
        /\ reservations[i].space = reservations[j].space
        /\ reservations[i].status = APPROVED
        /\ reservations[j].status = APPROVED
        /\ reservations[i].end = reservations[j].start

\* C2: with requests served one at a time, at every instant the quantities of a
\* resource held by PENDING or APPROVED reservations sum to at most its total.
C2_CommittedWithinTotal ==
    \A r \in Resources, t \in Times : Committed(r, t) <= ResourceQuantity[r]

\* C3: of two concurrent approvals of overlapping reservations of one space at
\* most one commits APPROVED; the other ends with SchedulingConflict and its
\* reservation stays PENDING.
C3_OneApprovalWins ==
    \A v \in Workers, w \in Workers :
        (/\ v # w
         /\ inflight[v].op = "decide" /\ inflight[v].pc = "done"
         /\ inflight[w].op = "decide" /\ inflight[w].pc = "done"
         /\ inflight[v].result \in {"APPR", "SchedulingConflict"}
         /\ inflight[w].result \in {"APPR", "SchedulingConflict"}
         /\ SameSpaceOverlap(inflight[v].pk, inflight[w].pk))
        => \E l \in {v, w} :
               /\ inflight[l].result = "SchedulingConflict"
               /\ reservations[inflight[l].pk].status = PENDING

\* C4: after two concurrent creates have both been answered, the committed
\* quantity of every resource is within its total at every instant (the create
\* that would exceed the stock was refused with InsufficientResource).
C4_StockHoldsAfterRace ==
    (\A w \in Workers : inflight[w].op = "create" /\ inflight[w].pc = "done")
        => \A r \in Resources, t \in Times : Committed(r, t) <= ResourceQuantity[r]

\* C5: a decision (approve or reject) on a reservation that is not PENDING
\* fails with InvalidState and changes neither the reservation, nor its
\* Approval, nor the notifications.
C5_DecideOnlyFromPending ==
    [][\A pk \in Ids :
         (/\ reservations[pk].status # PENDING
          /\ \E approver \in StaffUsers, raw \in {"approve", "reject", "APPR", "REJ"},
                notes \in Notes : DecideOn(approver, pk, raw, notes))
         => /\ outcome'.result = "InvalidState"
            /\ reservations' = reservations
            /\ approvals' = approvals
            /\ emitted' = <<>>]_vars

\* C6: REJECTED and CANCELLED are never left, and a status only ever changes
\* PENDING->APPROVED, PENDING->REJECTED, PENDING->CANCELLED or APPROVED->CANCELLED.
C6_TerminalStatuses ==
    [][\A i \in Ids :
         /\ reservations[i].status \in {REJECTED, CANCELLED}
                => reservations'[i].status = reservations[i].status
         /\ reservations'[i].status # reservations[i].status
                => <<reservations[i].status, reservations'[i].status>> \in
                       {<<PENDING, APPROVED>>, <<PENDING, REJECTED>>,
                        <<PENDING, CANCELLED>>, <<APPROVED, CANCELLED>>}]_vars

\* Another reservation of the same space is APPROVED and overlaps pk
Blocked(pk) ==
    \E j \in Ids :
        /\ j # pk
        /\ reservations[j].space = reservations[pk].space
        /\ reservations[j].status = APPROVED
        /\ reservations[j].start < reservations[pk].end
        /\ reservations[pk].start < reservations[j].end

\* C7: approving a PENDING reservation that an APPROVED one of the same space
\* overlaps ends with SchedulingConflict; no reservation changes, no Approval
\* is written and nothing is notified.
C7_ConflictLeavesPending ==
    [][\A pk \in Ids :
         (/\ reservations[pk].status = PENDING
          /\ Blocked(pk)
          /\ \E approver \in StaffUsers, raw \in {"approve", "APPR"}, notes \in Notes :
                DecideOn(approver, pk, raw, notes))
         => /\ outcome' = [op |-> "decide", pk |-> pk, result |-> "SchedulingConflict"]
            /\ reservations' = reservations
            /\ approvals' = approvals
            /\ usages' = usages
            /\ emitted' = <<>>]_vars

\* C7 happens: the approval of a blocked PENDING reservation was refused.
C7_ConflictRefused ==
    /\ outcome.op = "decide"
    /\ outcome.result = "SchedulingConflict"
    /\ outcome.pk \in Ids
    /\ reservations[outcome.pk].status = PENDING
    /\ Blocked(outcome.pk)
    /\ \A a \in approvals : a.reservation # outcome.pk

\* C8: a create that asks, for at least one resource, for more than is
\* available over its slot ends with InsufficientResource; no Reservation, no
\* usage row and no notification is written, whatever else it asks for.
C8_ShortCreateRefused ==
    [][\A user \in Owners, s \in Times, e \in Times, quantity \in Requests :
         (/\ s < e
          /\ \E r \in Resources :
                /\ quantity[r] >= 1
                /\ quantity[r] > check_resource_availability(reservations, usages, r, s, e)
          /\ CreateOn(user, "LabA", s, e, quantity, {}))
         => /\ outcome'.result = "InsufficientResource"
            /\ reservations' = reservations
            /\ usages' = usages
            /\ approvals' = approvals
            /\ emitted' = <<>>]_vars

\* C8 happens: a create was refused while, over some slot, one resource is
\* exhausted by an active reservation and the other is still available.
C8_RefusedWithOtherAvailable ==
    /\ outcome.op = "create"
    /\ outcome.result = "InsufficientResource"
    /\ emitted = <<>>
    /\ \E s \in Times, e \in Times, r \in Resources, q \in Resources :
          /\ s < e
          /\ check_resource_availability(reservations, usages, r, s, e) = 0
          /\ check_resource_availability(reservations, usages, q, s, e) >= 1

\* C9: every reservation has a usage row for each resource it asked at least
\* one unit of, also when the insert of a usage row has failed.
C9_AllUsageRowsOrNone ==
    \A pk \in Ids, r \in Resources :
        reservations[pk].purpose[r] >= 1
            => \E u \in usages : /\ u.reservation = pk
                                 /\ u.resource = r
                                 /\ u.quantity = reservations[pk].purpose[r]

\* C10: a cancel by the owner of a reservation that is REJECTED or CANCELLED,
\* or whose start is less than the minimum window away, ends with
\* CancellationNotAllowed; status and reason stay and nothing is notified.
C10_CancelRefused ==
    [][\A pk \in Ids, reason \in Reasons :
         (/\ \/ reservations[pk].status \in {REJECTED, CANCELLED}
             \/ ~(now < reservations[pk].start - MinCancelWindow)
          /\ CancelOn(reservations[pk].user, pk, reason))
         => /\ outcome' = [op |-> "cancel", pk |-> pk, result |-> "CancellationNotAllowed"]
            /\ reservations' = reservations
            /\ emitted' = <<>>]_vars

\* C10 happens: the cancel of a PENDING or APPROVED reservation was refused at
\* the very instant the window closes.
C10_RefusedAtWindow ==
    /\ outcome.op = "cancel"
    /\ outcome.result = "CancellationNotAllowed"
    /\ outcome.pk \in Ids
    /\ reservations[outcome.pk].status \in {PENDING, APPROVED}
    /\ now = reservations[outcome.pk].start - MinCancelWindow

\* The time condition of can_cancel no longer holds for reservation pk
WindowClosed(pk) == now >= reservations[pk].start - MinCancelWindow

\* C11: a cancel by the owner of an active reservation is refused when the
\* clock stands exactly at start minus the cancel window and is carried out
\* when the clock stands one unit earlier; the window of a reservation never
\* reopens, and every cancel requested after it closed leaves the reservation
\* as it is, so a refusal for the time condition is final.
C11_WindowBoundary ==
    [][\A pk \in Ids :
        LET r == reservations[pk] IN
        /\ WindowClosed(pk) =>
            /\ pk \in DOMAIN reservations'
            /\ reservations'[pk].start = r.start
            /\ now' >= reservations'[pk].start - MinCancelWindow
        /\ (/\ outcome'.op = "cancel"
            /\ outcome'.pk = pk
            /\ \E reason \in Reasons : CancelOn(r.user, pk, reason))
           => /\ WindowClosed(pk) =>
                  /\ outcome'.result # "ok"
                  /\ reservations' = reservations
              /\ r.status \in {PENDING, APPROVED} =>
                  /\ now = r.start - MinCancelWindow =>
                         outcome'.result = "CancellationNotAllowed"
                  /\ now = r.start - MinCancelWindow - 1 =>
                         /\ outcome'.result = "ok"
                         /\ reservations'[pk].status = CANCELLED
    ]_vars

\* A cancel went through one unit before the window of the reservation closed
C11_AllowedOneUnitEarlier ==
    \E pk \in Ids :
        /\ outcome = [op |-> "cancel", pk |-> pk, result |-> "ok"]
        /\ reservations[pk].status = CANCELLED
        /\ now = reservations[pk].start - MinCancelWindow - 1

\* What reservation i holds of resource r during [s, e): its usage rows of r
\* while it is PENDING or APPROVED and start < e and end > s, else nothing
Holds(i, r, s, e) ==
    IF /\ reservations[i].status \in {PENDING, APPROVED}
       /\ reservations[i].start < e
       /\ reservations[i].end > s
    THEN SumQty({u \in usages : u.reservation = i /\ u.resource = r})
    ELSE 0

RECURSIVE HeldUpTo(_, _, _, _)
HeldUpTo(n, r, s, e) ==
    IF n = 0 THEN 0 ELSE Holds(n, r, s, e) + HeldUpTo(n - 1, r, s, e)

Intervals == {x \in Times \X Times : x[1] < x[2]}

availableQuantity(r, x) == check_resource_availability(reservations, usages, r, x[1], x[2])

\* C12: in every state, for every resource and every interval [s, e) with
\* s < e, the availability is max(0, T - U), U being the sum over all
\* reservations, whatever their space, of what they hold during the interval;
\* and with no PENDING or APPROVED reservation it is T.
C12_AvailabilityIsTotalMinusActiveUse ==
    \A r \in Resources, x \in Intervals :
        LET T == catalog.resources[r].quantity
            U == HeldUpTo(Len(reservations), r, x[1], x[2])
        IN  /\ availableQuantity(r, x) = (IF T - U >= 0 THEN T - U ELSE 0)
            /\ (\A i \in Ids : reservations[i].status \notin {PENDING, APPROVED})
                   => availableQuantity(r, x) = T

\* A rejected or cancelled reservation and an active one on another space carry
\* rows of one resource for one slot, and only the active one is counted
C12_OnlyActiveCounted ==
    \E r \in Resources, i, k \in Ids :
        /\ \A n \in {i, k} : \E u \in usages : u.reservation = n /\ u.resource = r
        /\ reservations[i].status \in {REJECTED, CANCELLED}
        /\ reservations[k].status \in {PENDING, APPROVED}
        /\ reservations[k].space # reservations[i].space
        /\ reservations[i].start = reservations[k].start
        /\ reservations[i].end = reservations[k].end
        /\ Holds(k, r, reservations[k].start, reservations[k].end) > 0
        /\ availableQuantity(r, <<reservations[k].start, reservations[k].end>>)
               = catalog.resources[r].quantity
                 - Holds(k, r, reservations[k].start, reservations[k].end)

\* C13: in every state, for every resource and every interval, the
\* availability is at least 0 and at most the resource's total, also when the
\* reservations holding the resource during the interval hold more than the
\* total.
C13_AvailabilityWithinTotal ==
    \A r \in Resources, x \in Intervals :
        /\ availableQuantity(r, x) >= 0
        /\ availableQuantity(r, x) <= catalog.resources[r].quantity

\* More than the total of a resource is held during one slot, and nothing is left
C13_NothingLeftWhenOverCommitted ==
    \E r \in Resources, x \in Intervals :
        /\ x[2] = x[1] + 1
        /\ HeldUpTo(Len(reservations), r, x[1], x[2]) > catalog.resources[r].quantity
        /\ availableQuantity(r, x) = 0

Slot(i) == <<reservations[i].start, reservations[i].end>>

overlaps(A, B) == Overlaps(A[1], A[2], B[1], B[2])

\* C14: the overlap test gives the same answer with its two intervals
\* exchanged, says yes for an interval with start < end against itself, and
\* says no when one interval ends exactly where the other starts; this for all
\* pairs of slot boundaries a form offers and for the slots of all reservations.
C14_OverlapTest ==
    /\ \A A \in Times \X Times, B \in Times \X Times :
           /\ overlaps(A, B) = overlaps(B, A)
           /\ A[1] < A[2] => overlaps(A, A)
           /\ A[2] = B[1] => ~overlaps(A, B) /\ ~overlaps(B, A)
    /\ \A i \in Ids, j \in Ids :
           /\ overlaps(Slot(i), Slot(j)) = overlaps(Slot(j), Slot(i))
           /\ reservations[i].start < reservations[i].end => overlaps(Slot(i), Slot(i))
           /\ reservations[i].end = reservations[j].start => ~overlaps(Slot(i), Slot(j))

\* A reservation was just approved on a space where an approved reservation
\* ends exactly at its start
C14_ApprovedNextToApproved ==
    \E i \in Ids, j \in Ids :
        /\ outcome = [op |-> "decide", pk |-> j, result |-> APPROVED]
        /\ reservations[i].space = reservations[j].space
        /\ reservations[i].status = APPROVED
        /\ reservations[i].start < reservations[i].end
        /\ reservations[i].end = reservations[j].start
        /\ reservations[j].start < reservations[j].end

\* C15: a create for a slot with start < end, of which every requested
\* resource is available in the requested quantity, goes through and adds a
\* PENDING reservation, however many PENDING or APPROVED reservations of the
\* same space overlap the slot.
C15_CreateIgnoresSpaceConflicts ==
    [][\A user \in Owners, x \in Intervals, quantity \in Requests :
        (/\ outcome'.op = "create"
         /\ \A r \in Requested(quantity) : availableQuantity(r, x) >= quantity[r]
         /\ CreateOn(user, "LabA", x[1], x[2], quantity, {}))
        => /\ outcome'.op = "create"
           /\ outcome'.result = "ok"
           /\ Len(reservations') = Len(reservations) + 1
           /\ reservations'[outcome'.pk].status = PENDING
           /\ reservations'[outcome'.pk].space = "LabA"
           /\ \A i \in Ids : reservations'[i] = reservations[i]
    ]_vars

\* The reservation just created overlaps a PENDING one on the same space
C15_OverlappingPendingCoexist ==
    \E i \in Ids, j \in Ids :
        /\ i # j
        /\ outcome = [op |-> "create", pk |-> j, result |-> "ok"]
        /\ reservations[i].space = reservations[j].space
        /\ reservations[i].status = PENDING
        /\ reservations[j].status = PENDING
        /\ overlaps(Slot(i), Slot(j))

\* The notification rows of the last request that went to user, of one kind
Sent(rows, user, kind, pk) ==
    {n \in DOMAIN rows : rows[n] = [user |-> user, kind |-> kind, reservation |-> pk]}

OperationsGroup == GroupMembers(CLEANING_GROUP_NAME)

\* C16: approving a PENDING reservation that no APPROVED reservation of its
\* space overlaps leaves exactly one Approval of it, with decision APPROVED, the
\* approver and the notes given; sets its status to APPROVED and nothing else
\* of it; sends one "approved" row to its owner, one "prepare" row to each
\* member of the operations group and no other row; and changes no other
\* reservation, no other Approval and no usage row.
C16_ApproveEffects ==
    [][\A pk \in Ids, approver \in StaffUsers, raw \in {"approve", "APPR"}, notes \in Notes :
        (/\ reservations[pk].status = PENDING
         /\ ~Blocked(pk)
         /\ DecideOn(approver, pk, raw, notes))
        => /\ outcome' = [op |-> "decide", pk |-> pk, result |-> APPROVED]
           /\ {a \in approvals' : a.reservation = pk}
                  = {[reservation |-> pk, approver |-> approver,
                      decision |-> APPROVED, notes |-> notes]}
           /\ {a \in approvals' : a.reservation # pk}
                  = {a \in approvals : a.reservation # pk}
           /\ reservations' = [reservations EXCEPT ![pk].status = APPROVED]
           /\ usages' = usages
           /\ Cardinality(Sent(emitted', reservations[pk].user, "approved", pk)) = 1
           /\ \A m \in OperationsGroup : Cardinality(Sent(emitted', m, "prepare", pk)) = 1
           /\ Len(emitted') = 1 + Cardinality(OperationsGroup)
    ]_vars

\* A PENDING reservation was just approved, and its owner and the operations
\* group have been told
C16_ApprovedAndAnnounced ==
    \E pk \in Ids :
        /\ outcome = [op |-> "decide", pk |-> pk, result |-> APPROVED]
        /\ reservations[pk].status = APPROVED
        /\ \E a \in approvals : a.reservation = pk /\ a.decision = APPROVED
        /\ Sent(emitted, reservations[pk].user, "approved", pk) # {}
        /\ OperationsGroup # {}
        /\ \A m \in OperationsGroup : Sent(emitted, m, "prepare", pk) # {}

\* C17: rejecting a PENDING reservation goes through whether or not an
\* APPROVED reservation of its space overlaps it: its status becomes REJECTED,
\* exactly one Approval of it is left, with decision REJECTED, the approver and
\* the notes given, one "rejected" row goes to its owner and no row goes to
\* anybody else.
C17_RejectEffects ==
    [][\A pk \in Ids, approver \in StaffUsers, raw \in {"reject", "REJ"}, notes \in Notes :
        (/\ reservations[pk].status = PENDING
         /\ DecideOn(approver, pk, raw, notes))
        => /\ outcome' = [op |-> "decide", pk |-> pk, result |-> REJECTED]
           /\ {a \in approvals' : a.reservation = pk}
                  = {[reservation |-> pk, approver |-> approver,
                      decision |-> REJECTED, notes |-> notes]}
           /\ reservations' = [reservations EXCEPT ![pk].status = REJECTED]
           /\ emitted' = <<[user |-> reservations[pk].user, kind |-> "rejected",
                            reservation |-> pk]>>
    ]_vars

\* A reservation that an APPROVED one of its space overlaps was just rejected
C17_RejectedWhileBlocked ==
    \E pk \in Ids :
        /\ outcome = [op |-> "decide", pk |-> pk, result |-> REJECTED]
        /\ reservations[pk].status = REJECTED
        /\ Blocked(pk)
        /\ \E a \in approvals : a.reservation = pk /\ a.decision = REJECTED
        /\ Len(emitted) = 1

\* The places of the first and of the last character of a text that is not a
\* blank
FirstInk(text) ==
    CHOOSE i \in 1..Len(text) :
        text[i] # " " /\ \A j \in 1..(i - 1) : text[j] = " "

LastInk(text) ==
    CHOOSE i \in 1..Len(text) :
        text[i] # " " /\ \A j \in (i + 1)..Len(text) : text[j] = " "

\* A text from its first to its last non-blank character, cut to the length
\* of the column
TrimmedAndCut(text) ==
    IF \A i \in 1..Len(text) : text[i] = " " THEN <<>>
    ELSE SubSeq(text, FirstInk(text),
                Min(LastInk(text), FirstInk(text) + CancelReasonMax - 1))

\* A text cut to the length of the column and otherwise as it is
Cut(text) == SubSeq(text, 1, Min(Len(text), CancelReasonMax))

\* What every cancel that goes through does besides storing the reason
CancelSideEffects(pk) ==
    /\ outcome' = [op |-> "cancel", pk |-> pk, result |-> "ok"]
    /\ reservations'[pk].status = CANCELLED
    /\ \A i \in Ids : i # pk => reservations'[i] = reservations[i]
    /\ \A f \in {"user", "space", "start", "end", "purpose"} :
           reservations'[pk][f] = reservations[pk][f]
    /\ approvals' = approvals
    /\ usages' = usages
    /\ \A m \in OperationsGroup : Cardinality(Sent(emitted', m, "cancelled", pk)) = 1

\* C18 as stated: a cancel that goes through stores the reason as given, cut
\* to 255 characters, tells each member of the operations group and sends the
\* owner nothing, and leaves Approvals, usage rows and other reservations alone.
C18_ReasonStoredAsGiven ==
    [][\A pk \in Ids, reason \in ReasonTexts :
        (/\ can_cancel(reservations[pk], now)
         /\ outcome'.op = "cancel"
         /\ outcome'.pk = pk
         /\ CancelOn(reservations[pk].user, pk, reason))
        => /\ CancelSideEffects(pk)
           /\ reservations'[pk].cancel_reason = Cut(reason)
           /\ \A n \in DOMAIN emitted' : emitted'[n].user # reservations[pk].user
    ]_vars

\* C18, amended: a cancel that goes through stores the reason without the
\* blanks around it, cut to 255 characters after that; sends one "cancelled"
\* row to each member of the operations group, the owner included when the
\* owner is a member, and no other row; and leaves Approvals, usage rows and
\* other reservations alone.
C18_ReasonStoredTrimmed ==
    [][\A pk \in Ids, reason \in ReasonTexts :
        (/\ can_cancel(reservations[pk], now)
         /\ outcome'.op = "cancel"
         /\ outcome'.pk = pk
         /\ CancelOn(reservations[pk].user, pk, reason))
        => /\ CancelSideEffects(pk)
           /\ reservations'[pk].cancel_reason = TrimmedAndCut(reason)
           /\ Len(reservations'[pk].cancel_reason) <= CancelReasonMax
           /\ Len(emitted') = Cardinality(OperationsGroup)
    ]_vars

\* A decided reservation with usage rows was just cancelled with a reason that
\* filled the column
C18_CancelledWithLongReason ==
    \E pk \in Ids :
        /\ outcome = [op |-> "cancel", pk |-> pk, result |-> "ok"]
        /\ reservations[pk].status = CANCELLED
        /\ Len(reservations[pk].cancel_reason) = CancelReasonMax
        /\ \E a \in approvals : a.reservation = pk
        /\ \E u \in usages : u.reservation = pk
        /\ emitted # <<>>

\* C19: no request ends with the failure of a notification insert passed on
\* to its caller, and whenever a request writes an Approval, the reservation
\* it is about has the status of that decision when the request ends.
C19_SinkFailureSwallowed ==
    [][/\ outcome'.result # "ServerError"
       /\ \A a \in approvals' \ approvals :
              reservations'[a.reservation].status = DecidedStatus(a.decision)
    ]_vars

\* C20: whatever creates, decisions and cancels have been served, every Space
\* and every Resource record has the name, the active flag and the quantity it
\* had before the first of them.
C20_CatalogUntouched ==
    /\ catalog = Catalog
    /\ \A r \in Resources : catalog.resources[r].quantity = ResourceQuantity[r]

\* A create that took resources, a decision and a cancel have all been served
C20_AllThreeServed ==
    \E i \in Ids, j \in Ids :
        /\ reservations[i].status = CANCELLED
        /\ reservations[j].status = APPROVED
        /\ \E a \in approvals : a.reservation = j
        /\ \E u \in usages : u.reservation = i
        /\ \E u \in usages : u.reservation = j

\* C21: the availability query answers NotFound for a resource id that no
\* row has and, for a resource that exists, InvalidArgument when the interval
\* ends at or before its start.
C21_QueryReportsErrors ==
    [][\A resource_id \in ResourceIds, s \in Times, e \in Times :
        (/\ outcome'.op = "availability"
         /\ resource_availability(resource_id, s, e))
        => /\ resource_id \notin DOMAIN catalog.resources
                  => outcome'.result = "NotFound"
           /\ resource_id \in DOMAIN catalog.resources /\ e <= s
                  => outcome'.result = "InvalidArgument"
    ]_vars

\* What a query leaves as it was
LedgerUnchanged ==
    /\ reservations' = reservations
    /\ usages' = usages
    /\ approvals' = approvals
    /\ catalog' = catalog
    /\ groups' = groups
    /\ emitted' = <<>>

\* C25: a single or a bulk availability query changes no Reservation, usage
\* row, Approval or Resource and writes no notification; the number it gives
\* for a resource is the availability in the state it was asked in, which is
\* also the availability in the state it leaves, so the same query asked again
\* gives the same answer.
C25_QueriesArePureReads ==
    [][/\ \A resource_id \in ResourceIds, s \in Times, e \in Times :
            (/\ outcome'.op = "availability"
             /\ resource_availability(resource_id, s, e))
            => /\ LedgerUnchanged
               /\ resource_id \in DOMAIN catalog.resources =>
                      /\ outcome'.available = check_resource_availability(
                             reservations, usages, resource_id, s, e)
                      /\ outcome'.available = check_resource_availability(
                             reservations', usages', resource_id, s, e)
       /\ \A s \in Times, e \in Times :
            (/\ outcome'.op = "availability_bulk"
             /\ resource_availability_bulk(s, e))
            => /\ LedgerUnchanged
               /\ \A r \in DOMAIN outcome'.resources :
                      /\ outcome'.resources[r].available = check_resource_availability(
                             reservations, usages, r, s, e)
                      /\ outcome'.resources[r].available = check_resource_availability(
                             reservations', usages', r, s, e)
    ]_vars

\* A query was answered with less than the total while reservations, usage
\* rows and an Approval were there to be touched
C25_AnsweredOverALedger ==
    /\ outcome.op = "availability"
    /\ outcome.result = "ok"
    /\ outcome.available < outcome.total
    /\ usages # {}
    /\ approvals # {}

ApprovalsOf(as, pk) == {a \in as : a.reservation = pk}

\* C22: no reservation ever has more than one Approval; a decision that is
\* recorded leaves, for its reservation, the one record with its approver, its
\* decision and its notes, whatever record was there; and a request that
\* records no decision leaves every Approval as it was.
C22_OneApprovalLatestDecision ==
    [][/\ \A pk \in DOMAIN reservations' : Cardinality(ApprovalsOf(approvals', pk)) <= 1
       /\ \A pk \in Ids : Cardinality(ApprovalsOf(approvals, pk)) <= 1
       /\ \A approver \in Approvers, pk \in Ids, raw \in {"approve", "reject"},
             notes \in NoteTexts :
            (/\ outcome'.op = "decide"
             /\ outcome'.pk = pk
             /\ outcome'.result \in {APPROVED, REJECTED}
             /\ DecideOn(approver, pk, raw, notes))
            => /\ ApprovalsOf(approvals', pk)
                      = {[reservation |-> pk, approver |-> approver,
                          decision |-> IF raw = "approve" THEN APPROVED ELSE REJECTED,
                          notes |-> notes]}
               /\ \A i \in Ids : i # pk =>
                      ApprovalsOf(approvals', i) = ApprovalsOf(approvals, i)
       /\ ~(outcome'.op = "decide" /\ outcome'.result \in {APPROVED, REJECTED})
              => approvals' = approvals
    ]_vars

\* Both reservations carry the record of a decision, by different approvers
\* and with different notes, and the latest request was one of them
C22_RecordedDecisions ==
    \E pk \in Ids, i \in Ids, a \in approvals, b \in approvals :
        /\ pk # i
        /\ outcome.op = "decide"
        /\ outcome.pk = pk
        /\ a.reservation = pk
        /\ a.decision = outcome.result
        /\ b.reservation = i
        /\ a.approver # b.approver
        /\ a.notes # b.notes
        /\ reservations[pk].status = a.decision

\* The reservations that stand in the way of approving pk
Blockers(pk) ==
    {j \in Ids \ {pk} : /\ reservations[j].space = reservations[pk].space
                        /\ reservations[j].status = APPROVED
                        /\ reservations[j].start < reservations[pk].end
                        /\ reservations[j].end > reservations[pk].start}

\* C23: a decide(APPROVE) on reservation pk is turned down for a conflict
\* exactly when some other reservation of the same space is APPROVED with
\* start < pk's end and end > pk's start; reservations that are PENDING,
\* REJECTED or CANCELLED, that are on another space, that only touch pk's slot,
\* and pk itself are none of them.
C23_ConflictIffApprovedOverlap ==
    [][\A pk \in Ids :
        (/\ outcome'.op = "decide"
         /\ outcome'.pk = pk
         /\ \E approver \in StaffUsers, raw \in {"approve", "APPR"}, notes \in Notes :
                DecideOn(approver, pk, raw, notes))
        => /\ (outcome'.result = "SchedulingConflict") <=> (Blockers(pk) # {})
           /\ HasConflict(reservations, pk) <=> (Blockers(pk) # {})
           /\ \A j \in Ids :
                  (\/ j = pk
                   \/ reservations[j].status \in {PENDING, REJECTED, CANCELLED}
                   \/ reservations[j].space # reservations[pk].space
                   \/ reservations[j].end = reservations[pk].start
                   \/ reservations[pk].end = reservations[j].start)
                  => j \notin Blockers(pk)
    ]_vars

\* A reservation was just approved while an APPROVED reservation of another
\* space overlaps it
C23_ApprovedBesideOtherSpace ==
    \E pk \in Ids, j \in Ids :
        /\ outcome = [op |-> "decide", pk |-> pk, result |-> APPROVED]
        /\ j # pk
        /\ reservations[j].status = APPROVED
        /\ reservations[j].space # reservations[pk].space
        /\ overlaps(Slot(j), Slot(pk))
        /\ reservations[pk].start < reservations[pk].end

\* The other reservations of pk's space whose slots overlap the slot of pk
Rivals(pk) ==
    {j \in Ids \ {pk} : /\ reservations[j].space = reservations[pk].space
                        /\ overlaps(Slot(j), Slot(pk))}

\* C24: what a decide(APPROVE) on a PENDING reservation does depends on the
\* statuses its rivals have when the decision is made: with a rival that is
\* APPROVED, created before it or after it, the approval is refused and nothing
\* changes; with no rival APPROVED, rivals that were approved once and have
\* been cancelled since included, it is approved.
C24_ConflictJudgedAtDecisionTime ==
    [][\A pk \in Ids :
        (/\ outcome'.op = "decide"
         /\ outcome'.pk = pk
         /\ reservations[pk].status = PENDING
         /\ \E approver \in StaffUsers, raw \in {"approve", "APPR"}, notes \in Notes :
                DecideOn(approver, pk, raw, notes))
        => /\ (\E j \in Rivals(pk) : reservations[j].status = APPROVED)
                  => /\ outcome'.result = "SchedulingConflict"
                     /\ reservations' = reservations
           /\ (\A j \in Rivals(pk) : reservations[j].status # APPROVED)
                  => /\ outcome'.result = APPROVED
                     /\ reservations'[pk].status = APPROVED
    ]_vars

\* A reservation was just approved whose rival had been approved and has been
\* cancelled
C24_ApprovedAfterRivalCancelled ==
    \E pk \in Ids :
        /\ outcome = [op |-> "decide", pk |-> pk, result |-> APPROVED]
        /\ reservations[pk].status = APPROVED
        /\ \E j \in Rivals(pk) :
               /\ reservations[j].status = CANCELLED
               /\ \E a \in approvals : a.reservation = j /\ a.decision = APPROVED

\* C26: while the cleaning group does not exist, its audience is empty: an
\* approval of a PENDING reservation with nothing in its way goes through and
\* writes the owner's row only, and a cancel that is allowed goes through and
\* writes no row at all.
C26_MissingGroupIsEmptyAudience ==
    [][CLEANING_GROUP_NAME \notin DOMAIN groups =>
        /\ notify_cleaning_staff("cancelled", 0) = <<>>
        /\ \A pk \in Ids :
            (/\ outcome'.op = "decide"
             /\ outcome'.pk = pk
             /\ reservations[pk].status = PENDING
             /\ Blockers(pk) = {}
             /\ \E approver \in StaffUsers, raw \in {"approve", "APPR"}, notes \in Notes :
                    DecideOn(approver, pk, raw, notes))
            => /\ outcome'.result = APPROVED
               /\ reservations'[pk].status = APPROVED
               /\ emitted' = <<[user |-> reservations[pk].user, kind |-> "approved",
                                reservation |-> pk]>>
        /\ \A pk \in Ids :
            (/\ outcome'.op = "cancel"
             /\ outcome'.pk = pk
             /\ can_cancel(reservations[pk], now)
             /\ \E reason \in ReasonTexts : CancelOn(reservations[pk].user, pk, reason))
            => /\ outcome'.result = "ok"
               /\ reservations'[pk].status = CANCELLED
               /\ emitted' = <<>>
    ]_vars

\* With no cleaning group, a reservation was approved and has just been
\* cancelled, and the cancel wrote no row
C26_CancelledWithNoGroup ==
    \E pk \in Ids :
        /\ CLEANING_GROUP_NAME \notin DOMAIN groups
        /\ outcome = [op |-> "cancel", pk |-> pk, result |-> "ok"]
        /\ reservations[pk].status = CANCELLED
        /\ \E a \in approvals : a.reservation = pk /\ a.decision = APPROVED
        /\ emitted = <<>>

\* C27: from any state, a decide with "approve" and a decide with "APPR" by
\* the same approver, on the same reservation, with the same notes lead to the
\* same states with the same outcome, and so do "reject" and "REJ"; a decide
\* on an existing reservation with any other value ends with InvalidDecision
\* and changes no reservation, Approval or usage row and writes no row.
C27_DecisionSynonyms ==
    [][\A approver \in StaffUsers, pk \in 1..MaxRes, notes \in Notes :
        (outcome'.op = "decide" /\ outcome'.pk = pk)
        => /\ DecideOn(approver, pk, "approve", notes)
                  <=> DecideOn(approver, pk, "APPR", notes)
           /\ DecideOn(approver, pk, "reject", notes)
                  <=> DecideOn(approver, pk, "REJ", notes)
           /\ \A raw \in RawDecisions \ {"approve", "APPR", "reject", "REJ"} :
                  (pk \in Ids /\ DecideOn(approver, pk, raw, notes))
                  => /\ outcome'.result = "InvalidDecision"
                     /\ reservations' = reservations
                     /\ approvals' = approvals
                     /\ usages' = usages
                     /\ emitted' = <<>>
    ]_vars

\* A decision was just recorded as REJECTED, as both "reject" and "REJ" do
C27_RejectRecorded ==
    \E pk \in Ids :
        /\ outcome = [op |-> "decide", pk |-> pk, result |-> REJECTED]
        /\ reservations[pk].status = REJECTED
        /\ ApprovalsOf(approvals, pk) # {}
        /\ \A a \in ApprovalsOf(approvals, pk) : a.decision = REJECTED
        /\ emitted = <<[user |-> reservations[pk].user, kind |-> "rejected",
                        reservation |-> pk]>>

\* C28: every usage row there is, before and after every request, has a
\* quantity of at least 1, and a decide or a cancel leaves the usage rows
\* exactly as they were.
C28_UsageRowsPositiveAndFixed ==
    [][/\ \A u \in usages \cup usages' : u.quantity >= 1
       /\ outcome'.op \in {"decide", "cancel"} => usages' = usages
    ]_vars

\* A reservation that asked for one resource and not for another was decided
\* and then cancelled, and still has the row of the one and none of the other
C28_RowsOutliveDecisionAndCancel ==
    \E pk \in Ids, r \in Resources, r2 \in Resources :
        /\ outcome = [op |-> "cancel", pk |-> pk, result |-> "ok"]
        /\ reservations[pk].status = CANCELLED
        /\ ApprovalsOf(approvals, pk) # {}
        /\ reservations[pk].purpose[r] >= 1
        /\ [reservation |-> pk, resource |-> r,
            quantity |-> reservations[pk].purpose[r]] \in usages
        /\ reservations[pk].purpose[r2] = 0
        /\ \A u \in usages : ~(u.reservation = pk /\ u.resource = r2)

\* C29: a create that goes through asking quantity[r] of each resource r for
\* window x lowers the availability of r over x by exactly quantity[r], which
\* for a resource it did not ask for is nothing, over any window; and it
\* leaves the availability of every resource over every window that does not
\* overlap x as it was.
C29_CreateTakesExactlyWhatItAsks ==
    [][\A x \in Intervals, quantity \in Requests :
        (/\ outcome'.op = "create"
         /\ outcome'.result = "ok"
         /\ \E user \in Owners : CreateOn(user, "LabA", x[1], x[2], quantity, {}))
        => \A r \in Resources :
            /\ check_resource_availability(reservations', usages', r, x[1], x[2])
                   = availableQuantity(r, x) - quantity[r]
            /\ \A y \in Intervals :
                   (quantity[r] = 0 \/ ~(x[1] < y[2] /\ y[1] < x[2]))
                   => check_resource_availability(reservations', usages', r, y[1], y[2])
                          = availableQuantity(r, y)
    ]_vars

\* The reservation just created took some of a resource for its slot, next to
\* a slot in which another reservation holds some of the same resource
C29_TookFromItsSlotOnly ==
    \E pk \in Ids, i \in Ids, r \in Resources :
        /\ outcome = [op |-> "create", pk |-> pk, result |-> "ok"]
        /\ reservations[pk].purpose[r] >= 1
        /\ reservations[i].status \in {PENDING, APPROVED}
        /\ reservations[i].purpose[r] >= 1
        /\ reservations[i].end = reservations[pk].start
        /\ availableQuantity(r, Slot(pk))
               = catalog.resources[r].quantity - reservations[pk].purpose[r]
        /\ availableQuantity(r, Slot(i))
               = catalog.resources[r].quantity - reservations[i].purpose[r]

\* What the reservations other than pk hold of resource r during window x
HeldByOthers(pk, r, x) ==
    HeldUpTo(Len(reservations), r, x[1], x[2]) - Holds(pk, r, x[1], x[2])

\* C30: right after a reservation is rejected or cancelled, the availability
\* of every resource over every window is the total less what the other
\* reservations hold, its own rows counting for nothing; so a request that
\* was short of some resource, and that what the others hold leaves room for,
\* is short of nothing when made again.
C30_RejectAndCancelRelease ==
    [][\A pk \in Ids :
        (/\ \/ outcome' = [op |-> "decide", pk |-> pk, result |-> REJECTED]
            \/ outcome' = [op |-> "cancel", pk |-> pk, result |-> "ok"]
         /\ reservations'[pk].status \in {REJECTED, CANCELLED})
        => /\ \A r \in Resources, x \in Intervals :
                  check_resource_availability(reservations', usages', r, x[1], x[2])
                      = Max(0, catalog.resources[r].quantity - HeldByOthers(pk, r, x))
           /\ \A x \in Intervals, quantity \in Requests :
                  (/\ \E r \in Requested(quantity) : availableQuantity(r, x) < quantity[r]
                   /\ \A r \in Requested(quantity) :
                          catalog.resources[r].quantity - HeldByOthers(pk, r, x)
                              >= quantity[r])
                  => \A r \in Requested(quantity) :
                         check_resource_availability(reservations', usages', r, x[1], x[2])
                             >= quantity[r]
    ]_vars

\* The reservation just created overlaps a rejected or cancelled one, and the
\* two together ask for more of a resource than there is
C30_CreatedOnReleasedStock ==
    \E pk \in Ids, i \in Ids, r \in Resources :
        /\ outcome = [op |-> "create", pk |-> pk, result |-> "ok"]
        /\ i # pk
        /\ reservations[i].status \in {REJECTED, CANCELLED}
        /\ overlaps(Slot(i), Slot(pk))
        /\ \E u \in usages : u.reservation = i /\ u.resource = r
        /\ \E u \in usages : u.reservation = pk /\ u.resource = r
        /\ reservations[i].purpose[r] + reservations[pk].purpose[r]
               > catalog.resources[r].quantity

\* C36: a login POST from a blocked address is refused whatever its
\* credentials and changes nothing in the cache; from an address that is not
\* blocked, a failure counts one more attempt and blocks the address exactly
\* when that makes 5, and a success sets the count back to 0 and blocks
\* nothing; an address becomes blocked in no other way, with fewer than 5
\* attempts counted it is never blocked, and it stays blocked until the block
\* key expires.
C36_LoginThrottling ==
    [][/\ \A ip \in ClientIps, valid \in BOOLEAN :
            (outcome'.op = "login" /\ UserLoginPost(ip, valid))
            => /\ cache.block[ip] =>
                      /\ outcome'.result = "blocked"
                      /\ cache' = cache
               /\ ~cache.block[ip] /\ ~valid =>
                      /\ outcome'.result = "failed"
                      /\ cache'.attempts[ip] = cache.attempts[ip] + 1
                      /\ cache'.block[ip] <=> (cache.attempts[ip] + 1 >= 5)
               /\ ~cache.block[ip] /\ valid =>
                      /\ outcome'.result = "ok"
                      /\ cache'.attempts[ip] = 0
                      /\ ~cache'.block[ip]
       /\ \A ip \in ClientIps :
            /\ (~cache.block[ip] /\ cache'.block[ip])
                   => /\ cache.attempts[ip] = 4
                      /\ outcome' = [op |-> "login", pk |-> 0, result |-> "failed", ip |-> ip]
            /\ (cache.block[ip] /\ ~cache'.block[ip])
                   => /\ outcome' = outcome
                      /\ cache'.attempts[ip] = 0
            /\ cache'.attempts[ip] < 5 /\ ~cache.block[ip] => ~cache'.block[ip]
    ]_vars

\* An address with 5 failures counted is blocked and was just refused, while
\* another one with fewer failures counted is not blocked
C36_BlockedAfterFiveFailures ==
    \E ip \in ClientIps, other \in ClientIps :
        /\ outcome = [op |-> "login", pk |-> 0, result |-> "blocked", ip |-> ip]
        /\ cache.block[ip]
        /\ cache.attempts[ip] = 5
        /\ cache.attempts[other] \in 1..4
        /\ ~cache.block[other]

C32_StatusAgreesWithApproval ==
    \A pk \in Ids :
        /\ reservations[pk].status = APPROVED
               => \E a \in ApprovalsOf(approvals, pk) : a.decision = "APPR"
        /\ reservations[pk].status = REJECTED
               => \E a \in ApprovalsOf(approvals, pk) : a.decision = "REJ"
        /\ reservations[pk].status = PENDING => ApprovalsOf(approvals, pk) = {}

\* C33: a cancel request by a user who does not own the reservation, staff
\* included, ends in NotFound, leaves every reservation's status and reason
\* as they were and writes no notification, whatever the reservation's status
\* and start time.
C33_OnlyOwnerCancels ==
    [][\A actor \in Users \cup StaffUsers, pk \in Ids, reason \in Reasons :
        (/\ outcome'.op = "cancel"
         /\ outcome'.pk = pk
         /\ reservations[pk].user # actor
         /\ CancelOn(actor, pk, reason))
        => /\ outcome'.result = "NotFound"
           /\ reservations' = reservations
           /\ emitted' = <<>>
           /\ approvals' = approvals
           /\ usages' = usages
    ]_vars

\* A cancel was answered NotFound for a reservation that its owner could
\* still cancel
C33_StrangerTurnedAway ==
    \E pk \in Ids :
        /\ outcome = [op |-> "cancel", pk |-> pk, result |-> "NotFound"]
        /\ can_cancel(reservations[pk], now)
        /\ reservations[pk].status = APPROVED

\* C34: a decide and an owner cancel on the same reservation are
\* serializable.  When a decide saves a reservation that its owner cancelled
\* after the decide had loaded it, the stored row is the one that the two
\* requests leave when run one after the other in some order, and the
\* cancel is not undone: the status stays CANCELLED and the reason stays.
C34_DecideCancelSerializable ==
    [][\A w \in Workers, pk \in Ids :
        (/\ inflight[w].op = "decide"
         /\ inflight[w].pc = "save"
         /\ inflight[w].pk = pk
         /\ inflight[w].row.status # CANCELLED
         /\ reservations[pk].status = CANCELLED
         /\ DecideSave(w))
        => LET loaded == inflight[w].row
               stored == reservations[pk]
               decided == [loaded EXCEPT !.status = DecidedStatus(inflight[w].decision)]
               decideThenCancel == IF can_cancel(decided, now)
                                   THEN cancel_by_user(decided, stored.cancel_reason)
                                   ELSE decided
               cancelThenDecide == [stored EXCEPT !.status = DecidedStatus(inflight[w].decision)]
           IN  /\ reservations'[pk] \in {decideThenCancel, cancelThenDecide}
               /\ reservations'[pk].status = CANCELLED
               /\ reservations'[pk].cancel_reason = stored.cancel_reason
    ]_vars

\* C35: the bulk availability query agrees with the single one: for any
\* interval its answer has an entry for exactly the resources that are
\* active, and the available and total of each entry are those that the
\* single query answers for that resource and interval in the same state.
C35_BulkAgreesWithSingle ==
    [][\A s \in Times, e \in Times :
        (/\ outcome'.op = "availability_bulk"
         /\ resource_availability_bulk(s, e))
        => /\ DOMAIN outcome'.resources
                  = {r \in Resources : catalog.resources[r].is_active}
           /\ \A r \in DOMAIN outcome'.resources :
                  LET single == resource_availability_response(r, s, e) IN
                  /\ single.result = "ok"
                  /\ outcome'.resources[r].available = single.available
                  /\ outcome'.resources[r].total = single.total
    ]_vars

\* A bulk query was answered with an inactive resource left out and less
\* than the total available of one that is listed
C35_BulkOverPartlyActiveCatalog ==
    /\ outcome.op = "availability_bulk"
    /\ \E r \in Resources : ~catalog.resources[r].is_active
    /\ \A r \in Resources : ~catalog.resources[r].is_active => r \notin DOMAIN outcome.resources
    /\ \E r \in DOMAIN outcome.resources :
           outcome.resources[r].available < outcome.resources[r].total

====
